---- MODULE Spec2Model ----
(***************************************************************************)
(* adpi: a transparent TCP proxy that relays a connection in both          *)
(* directions and splits the first TLS ClientHello of the outbound         *)
(* direction into several writes (src/main.rs).                            *)
(*                                                                         *)
(* Spec follows one accepted connection: the outbound task                 *)
(* client_to_server (read, split plan, segmented write, really_flush,      *)
(* shutdown), the inbound task server_to_client, and the kernel's send     *)
(* queue of the destination socket.  LiveSpec is the outbound task alone,  *)
(* with fairness.  MainSpec is the process around the connections: main,   *)
(* the accept loops, handle_client, the sockets of each connection and     *)
(* the descriptor table.                                                   *)
(*                                                                         *)
(* Scale.  The read buffer has BufCap bytes instead of 8192, and the TLS   *)
(* wire format is kept level by level (record, handshake message,          *)
(* ClientHello, extension block, extension, server-name list, name entry)  *)
(* with every multi-byte type or length field narrowed to one byte and the *)
(* fixed-size ClientHello fields (version, random, cipher suites,          *)
(* compression) left out; the session id stays as the variable-length      *)
(* field in front of the extensions.  Offsets are 0-based as in the code;  *)
(* sequences are 1-based, so byte i of b is b[i + 1].                      *)
(***************************************************************************)
EXTENDS Integers, Sequences, FiniteSets, TLC

\* ------------------------------------------------------------------ bounds
BufCap == 14          \* bytes of buf (8192 in the code, scaled)
MaxReads == 2         \* reads of the outbound loop that return data
MaxSleeps == 4        \* sleeps of one really_flush that are counted
FarPos == 20          \* a configured split position beyond every read
MaxConns == 2         \* connections the acceptors accept

\* ------------------------------------------------- wire-format constants
REC_HANDSHAKE == 22   \* TlsRecordType::Handshake
REC_APPDATA == 23     \* TlsRecordType::ApplicationData
HS_CLIENT_HELLO == 1  \* TlsHandshakeType::ClientHello
EXT_SNI == 0          \* TlsExtensionType::ServerName
EXT_OTHER == 5        \* some other extension type (status_request)
SNI_HOSTNAME == 0     \* SNIType::HostName
SNI_OTHER == 1        \* some other name type
TIMEOUT_CAP == 8      \* really_flush: if timeout < 8
NUM_LISTENERS == 2    \* Args::listen_address: two default addresses
DEFAULT_THREADS == 4  \* Args::threads: default_value_t

VARIABLES
    args,             \* Args: [split_positions, split_host]
    c2s_pc,           \* position of client_to_server
    buf,              \* its read buffer, BufCap bytes
    read_bytes,       \* result of the last read
    split_positions,  \* the plan of the last read
    idx,              \* position of the write loop in split_positions
    start_byte,       \* start of the next slice
    timeout,          \* really_flush's backoff
    nsleeps,          \* sleeps of the running really_flush
    nreads,           \* reads that returned data so far
    written,          \* bytes written to the destination for the last read
    segs,             \* one entry per slice written for the last read:
                      \* [lo, hi) and the tcpi_notsent_bytes value with
                      \* which the really_flush after it returned Ok
                      \* (seen = -1: none has)
    c2s_exit,         \* why the loop of client_to_server ended
    c2s_result,       \* what client_to_server returned
    notsent,          \* kernel: unsent bytes queued on the destination socket
    server_wr,        \* write side of the destination socket: open,
                      \* shutdown (line 210 returned Ok), shutdown_err
                      \* (line 210 failed), dropped (the write half was
                      \* dropped with no call of shutdown)
    s2c_pc,           \* position of server_to_client
    s2c_relayed,      \* server_to_client has copied data to the client
    s2c_exit,         \* how server_to_client ended
    s2c_after_c2s,    \* ... and has copied data after client_to_server
                      \* returned
    pending,          \* client: rest of the message it is sending
    first_hello,      \* number of the first read whose bytes were a TLS
                      \* record carrying a ClientHello (0: none yet)
    \* the process: main, _main, the acceptors and handle_client
    main_pc,          \* position of main / _main
    threads,          \* Args::threads
    runtime,          \* the tokio runtime main has built
    acceptors,        \* listeners whose accept loop is running
    running,          \* connection whose handle_client holds the worker
                      \* (0: none)
    conns,            \* per accepted connection: handle_client, its
                      \* sockets and its two tasks
    fds               \* the process's descriptor table

conn_vars == <<args, c2s_pc, buf, read_bytes, split_positions, idx, start_byte,
               timeout, nsleeps, nreads, written, segs, c2s_exit, c2s_result,
               notsent, server_wr, s2c_pc, s2c_relayed, s2c_exit,
               s2c_after_c2s, pending, first_hello>>

proc_vars == <<main_pc, threads, runtime, acceptors, running, conns, fds>>

vars == <<conn_vars, proc_vars>>

\* ---------------------------------------------------------------- helpers
Byte(b, i) == b[i + 1]

\* b[lo..hi) with 0-based offsets, as a Rust slice
Slice(b, lo, hi) == SubSeq(b, lo + 1, hi)

Min(a, b) == IF a < b THEN a ELSE b

Range(s) == {s[i] : i \in 1..Len(s)}

\* ------------------------------------------------------------ TLS parser
\* The tls_parser functions the code calls, over the scaled wire format.
\* Every parser works on the byte range [p, end) of b and reports offsets
\* into b itself: that is the pointer difference of lines 178-179.

\* many0(complete(parse_tls_extension_sni_hostname)): entries
\* [name type, length, name] until one does not fit.
RECURSIVE ParseSniEntries(_, _, _)
ParseSniEntries(b, p, end) ==
    IF p + 2 > end THEN <<>>
    ELSE IF p + 2 + Byte(b, p + 1) > end THEN <<>>
    ELSE <<[sni_type |-> Byte(b, p), off |-> p + 2, len |-> Byte(b, p + 1)]>>
         \o ParseSniEntries(b, p + 2 + Byte(b, p + 1), end)

\* parse_tls_extension_sni_content: empty content is an empty list; else a
\* list length, then the entries inside that length.
ParseSni(b, p, end) ==
    IF p = end THEN [ok |-> TRUE, snis |-> <<>>]
    ELSE IF p + 1 + Byte(b, p) > end THEN [ok |-> FALSE, snis |-> <<>>]
    ELSE [ok |-> TRUE, snis |-> ParseSniEntries(b, p + 1, p + 1 + Byte(b, p))]

\* parse_tls_client_hello_extensions = many0(complete(parse_tls_extension)):
\* extensions [type, length, data] until one does not parse.
RECURSIVE ParseExtensions(_, _, _)
ParseExtensions(b, p, end) ==
    IF p + 2 > end THEN <<>>
    ELSE IF p + 2 + Byte(b, p + 1) > end THEN <<>>
    ELSE LET next == p + 2 + Byte(b, p + 1)
             sni  == ParseSni(b, p + 2, next)
         IN  IF Byte(b, p) = EXT_SNI
             THEN IF sni.ok
                  THEN <<[kind |-> "SNI", snis |-> sni.snis]>>
                       \o ParseExtensions(b, next, end)
                  ELSE <<>>
             ELSE <<[kind |-> "Other", snis |-> <<>>]>>
                  \o ParseExtensions(b, next, end)

\* parse_tls_handshake_msg_client_hello: session id (length-prefixed), then
\* ext = opt(complete(length_data)): the extension block if one fits.
ParseClientHello(b, p, end) ==
    IF p + 1 > end THEN [ok |-> FALSE, has_ext |-> FALSE, lo |-> 0, hi |-> 0]
    ELSE IF p + 1 + Byte(b, p) > end
    THEN [ok |-> FALSE, has_ext |-> FALSE, lo |-> 0, hi |-> 0]
    ELSE LET q == p + 1 + Byte(b, p)
         IN  IF q + 1 > end
             THEN [ok |-> TRUE, has_ext |-> FALSE, lo |-> 0, hi |-> 0]
             ELSE IF q + 1 + Byte(b, q) > end
             THEN [ok |-> TRUE, has_ext |-> FALSE, lo |-> 0, hi |-> 0]
             ELSE [ok |-> TRUE, has_ext |-> TRUE, lo |-> q + 1,
                   hi |-> q + 1 + Byte(b, q)]

\* many1(complete(parse_tls_message_handshake)): messages [type, length,
\* body] until one does not parse.
RECURSIVE ParseHandshakeMsgs(_, _, _)
ParseHandshakeMsgs(b, p, end) ==
    IF p + 2 > end THEN <<>>
    ELSE IF p + 2 + Byte(b, p + 1) > end THEN <<>>
    ELSE LET next == p + 2 + Byte(b, p + 1)
             ch   == ParseClientHello(b, p + 2, next)
         IN  IF Byte(b, p) = HS_CLIENT_HELLO
             THEN IF ch.ok
                  THEN <<[kind |-> "ClientHello", has_ext |-> ch.has_ext,
                          lo |-> ch.lo, hi |-> ch.hi]>>
                       \o ParseHandshakeMsgs(b, next, end)
                  ELSE <<>>
             ELSE <<[kind |-> "Other", has_ext |-> FALSE, lo |-> 0, hi |-> 0]>>
                  \o ParseHandshakeMsgs(b, next, end)

\* parse_tls_plaintext(b): record header [type, length], then the messages
\* inside that length.  Fails when the record does not fit in b, when its
\* type is unknown, or when no handshake message parses.
parse_tls_plaintext(b) ==
    IF Len(b) < 2 THEN [ok |-> FALSE, msg |-> <<>>]
    ELSE IF 2 + Byte(b, 1) > Len(b) THEN [ok |-> FALSE, msg |-> <<>>]
    ELSE IF Byte(b, 0) = REC_HANDSHAKE
    THEN LET msgs == ParseHandshakeMsgs(b, 2, 2 + Byte(b, 1))
         IN  [ok |-> msgs # <<>>, msg |-> msgs]
    ELSE IF Byte(b, 0) = REC_APPDATA
    THEN [ok |-> TRUE,
          msg |-> <<[kind |-> "Other", has_ext |-> FALSE, lo |-> 0, hi |-> 0]>>]
    ELSE [ok |-> FALSE, msg |-> <<>>]

\* b parses as a TLS record that carries a ClientHello.
CarriesClientHello(b) ==
    LET rec == parse_tls_plaintext(b)
    IN  rec.ok /\ \E m \in Range(rec.msg) : m.kind = "ClientHello"

\* ------------------------------------------------------------ split plan
\* Mutant of ExplicitPushes: the `*pos < read_bytes` test is missing.
ExplicitPushes_Unfiltered(ps, rb) == ps

\* Lines 171-175: the configured positions below read_bytes, in order.
RECURSIVE ExplicitPushes(_, _)
ExplicitPushes(ps, rb) ==
    IF ps = <<>> THEN <<>>
    ELSE (IF Head(ps) < rb THEN <<Head(ps)>> ELSE <<>>)
         \o ExplicitPushes(Tail(ps), rb)

\* Mutant of HostPush: always splits right before the host name.
HostPush_BeforeName(sni) == sni.off

\* Lines 177-185: the offset pushed for a host name.
HostPush(sni) == IF sni.len >= 2 THEN sni.off + 1 ELSE sni.off

\* Lines 170-186: what one server-name entry pushes.
PushesOfSni(sni, rb, a) ==
    IF sni.sni_type = SNI_HOSTNAME
    THEN ExplicitPushes(a.split_positions, rb)
         \o (IF a.split_host THEN <<HostPush(sni)>> ELSE <<>>)
    ELSE <<>>

\* Line 169: for (sni_type, sni_data) in snis
RECURSIVE PushesOfSnis(_, _, _)
PushesOfSnis(snis, rb, a) ==
    IF snis = <<>> THEN <<>>
    ELSE PushesOfSni(Head(snis), rb, a) \o PushesOfSnis(Tail(snis), rb, a)

\* Lines 167-168: for ext in exts, if let TlsExtension::SNI(snis) = ext
RECURSIVE PushesOfExts(_, _, _)
PushesOfExts(exts, rb, a) ==
    IF exts = <<>> THEN <<>>
    ELSE (IF Head(exts).kind = "SNI"
          THEN PushesOfSnis(Head(exts).snis, rb, a) ELSE <<>>)
         \o PushesOfExts(Tail(exts), rb, a)

\* Lines 163-166: for msg in record.msg, if ClientHello with Some(exts)
RECURSIVE PushesOfMsgs(_, _, _, _)
PushesOfMsgs(b, msgs, rb, a) ==
    IF msgs = <<>> THEN <<>>
    ELSE (IF Head(msgs).kind = "ClientHello" /\ Head(msgs).has_ext
          THEN PushesOfExts(ParseExtensions(b, Head(msgs).lo, Head(msgs).hi),
                            rb, a)
          ELSE <<>>)
         \o PushesOfMsgs(b, Tail(msgs), rb, a)

\* Line 162: parse_tls_plaintext(&buf): the whole buffer, not buf[..read_bytes]
ParsedBuffer(b, rb) == b

\* Mutant of PlanPushes: the explicit positions are pushed for every read,
\* parsed or not.
PlanPushes_EveryRead(b, rb, a) ==
    LET rec == parse_tls_plaintext(ParsedBuffer(b, rb))
    IN  ExplicitPushes(a.split_positions, rb)
        \o (IF rec.ok THEN PushesOfMsgs(b, rec.msg, rb, a) ELSE <<>>)

\* Lines 162-194
PlanPushes(b, rb, a) ==
    LET rec == parse_tls_plaintext(ParsedBuffer(b, rb))
    IN  IF rec.ok THEN PushesOfMsgs(b, rec.msg, rb, a) ELSE <<>>

\* Mutant of sort_unstable: the plan is left in push order.
sort_unstable_Skipped(s) == s

\* Vec::sort_unstable on integers
RECURSIVE Insert(_, _)
Insert(x, s) ==
    IF s = <<>> THEN <<x>>
    ELSE IF x <= Head(s) THEN <<x>> \o s
    ELSE <<Head(s)>> \o Insert(x, Tail(s))

RECURSIVE sort_unstable(_)
sort_unstable(s) ==
    IF s = <<>> THEN <<>> ELSE Insert(Head(s), sort_unstable(Tail(s)))

\* Vec::dedup: drops an element equal to the one before it
RECURSIVE dedup(_)
dedup(s) ==
    IF Len(s) < 2 THEN s
    ELSE IF s[1] = s[2] THEN dedup(Tail(s))
    ELSE <<s[1]>> \o dedup(Tail(s))

\* Mutant of SplitPlan: after the first read that carried a ClientHello
\* no read is inspected any more.
SplitPlan_FirstHelloOnly(b, rb, a) ==
    IF first_hello > 0 THEN <<rb>>
    ELSE dedup(sort_unstable(PlanPushes(b, rb, a) \o <<rb>>))

\* Lines 153 and 162-198: the plan of one read, made anew for every read
SplitPlan(b, rb, a) == dedup(sort_unstable(PlanPushes(b, rb, a) \o <<rb>>))


\* ---------------------------------------------------------- client input
\* What a client can send, in the scaled wire format.
NameEntry(t, name) == <<t, Len(name)>> \o name

SniExt(entries) == <<EXT_SNI, 1 + Len(entries), Len(entries)>> \o entries

OtherExt(data) == <<EXT_OTHER, Len(data)>> \o data

HelloBody(sid, exts) == <<Len(sid)>> \o sid \o <<Len(exts)>> \o exts

Record(body) ==
    <<REC_HANDSHAKE, 2 + Len(body), HS_CLIENT_HELLO, Len(body)>> \o body

\* ClientHello, host name "ab" at offset 11, 13 bytes
HelloHost2 == Record(HelloBody(<<>>, SniExt(NameEntry(SNI_HOSTNAME, <<97, 98>>))))
\* ClientHello, host name "a" at offset 11, 12 bytes
HelloHost1 == Record(HelloBody(<<>>, SniExt(NameEntry(SNI_HOSTNAME, <<97>>))))
\* ClientHello with a 1-byte session id, host name "ab" at offset 12, 14 bytes
HelloSid == Record(HelloBody(<<7>>, SniExt(NameEntry(SNI_HOSTNAME, <<97, 98>>))))
\* ClientHello with an extension but no server-name extension, 10 bytes
HelloNoSni == Record(HelloBody(<<>>, OtherExt(<<1, 2>>)))
\* ClientHello whose server-name list has no host-name entry, 13 bytes
HelloNoHost == Record(HelloBody(<<>>, SniExt(NameEntry(SNI_OTHER, <<97, 98>>))))
\* ClientHello without an extension block, 5 bytes
HelloNoExt == Record(<<0>>)
\* plain HTTP: "GET"
PlainHttp == <<71, 69, 84>>

Messages == {HelloHost2, HelloHost1, HelloSid, HelloNoSni, HelloNoHost,
             HelloNoExt, PlainHttp}

\* What one read can return: the client's bytes arrive in any segmentation,
\* so a read gets a non-empty prefix of what is left of the message being
\* sent, or of a new message.
Prefixes(m) == {SubSeq(m, 1, n) : n \in 1..Min(Len(m), BufCap)}

ReadChunks(pend) ==
    IF pend # <<>> THEN {<<c, SubSeq(pend, Len(c) + 1, Len(pend))>> : c \in Prefixes(pend)}
    ELSE UNION {{<<c, SubSeq(m, Len(c) + 1, Len(m))>> : c \in Prefixes(m)} : m \in Messages}

\* Args::split_positions and Args::split_host, lines 36-42
PositionLists == {<<>>, <<12, 5, FarPos>>}

Configs == [split_positions : PositionLists, split_host : BOOLEAN]

\* ------------------------------------------------------------ the process
\* main builds the runtime, _main binds the listeners and spawns one accept
\* loop per listener, every accepted connection gets a handle_client task,
\* which spawns the two relay tasks.  Here a relay task is followed only as
\* far as the sockets are concerned: it runs, it may query the unsent
\* bytes on server_fd, it returns.
Conns == 1..MaxConns

Listeners == 1..NUM_LISTENERS

\* Args::threads: none, one, two, and the default
ThreadCounts == {0, 1, 2, DEFAULT_THREADS}

\* Two sockets per connection
MaxFds == 2 * MaxConns

Fds == 1..MaxFds

\* TcpStream::into_split, lines 247-248
Halves == {"client_reader", "client_writer", "server_reader", "server_writer"}

SocketOf(h) ==
    IF h \in {"client_reader", "client_writer"} THEN "client" ELSE "server"

Free == [conn |-> 0, sock |-> "free"]

NoRuntime == [mode |-> "none", workers |-> 0]

\* A connection slot before listener.accept() has returned it
NoConn ==
    [hc |-> "none", connects |-> 0, connect_res |-> "none",
     server_fd |-> 0, c2s |-> "none", s2c |-> "none", queried |-> "none",
     halves |-> [h \in Halves |-> "none"]]

\* Lines 52-63: the runtime main builds for a thread count
RuntimeOf(n) ==
    IF n > 1 THEN [mode |-> "current_thread", workers |-> 1]
    ELSE [mode |-> "multi_thread", workers |-> n]

\* The kernel gives a new socket the lowest free descriptor
LowestFree(t) ==
    CHOOSE f \in Fds : t[f] = Free /\ \A g \in 1..(f - 1) : t[g] # Free

FdOf(t, c, sock) == CHOOSE f \in Fds : t[f] = [conn |-> c, sock |-> sock]

\* Mutant of DropOwned: the first owner to go takes the whole connection
\* with it.
DropOwned_All(hv, who) == [h \in Halves |-> "dropped"]

\* Dropping everything `who` owns of a connection
DropOwned(hv, who) ==
    [h \in Halves |-> IF hv[h] = who THEN "dropped" ELSE hv[h]]

\* A socket is closed when the last owner of it is dropped: both halves of
\* a split stream share it (Arc), an unsplit stream is one owner.
Closed(hv, sock) == \A h \in Halves : SocketOf(h) = sock => hv[h] = "dropped"

Release(t, c, hv) ==
    [f \in Fds |-> IF t[f].conn = c /\ Closed(hv, t[f].sock) THEN Free ELSE t[f]]

\* The process side left out: no connection slots, no descriptor table
ProcQuiet ==
    /\ main_pc = "main"
    /\ threads = DEFAULT_THREADS
    /\ runtime = NoRuntime
    /\ acceptors = {}
    /\ running = 0
    /\ conns = <<>>
    /\ fds = <<>>

\* ------------------------------------------------------------------ Init
\* handle_client has split both streams and spawned the two tasks
\* (lines 247-256); buf is vec![0u8; 8192] (line 149).
ConnInit ==
    /\ args \in Configs
    /\ c2s_pc = "read"
    /\ buf = [i \in 1..BufCap |-> 0]
    /\ read_bytes = 0
    /\ split_positions = <<>>
    /\ idx = 1
    /\ start_byte = 0
    /\ timeout = 1
    /\ nsleeps = 0
    /\ nreads = 0
    /\ written = <<>>
    /\ segs = <<>>
    /\ c2s_exit = "running"
    /\ c2s_result = "running"
    /\ notsent = 0
    /\ server_wr = "open"
    /\ s2c_pc = "copy"
    /\ s2c_relayed = FALSE
    /\ s2c_exit = "running"
    /\ s2c_after_c2s = FALSE
    /\ pending = <<>>
    /\ first_hello = 0

\* One connection is followed; the process around it is left out.
Init == ConnInit /\ ProcQuiet

\* Mutant of PeerAfterEnd: the two tasks are raced (select!), so the end of
\* one cancels the other.
PeerAfterEnd_Raced(peer_pc) == "done"

\* Lines 250-256: the two tasks are spawned detached (tokio::spawn, the
\* JoinHandles dropped), so the end of one leaves the other where it is.
PeerAfterEnd(peer_pc) == peer_pc

c2s_locals == <<buf, read_bytes, split_positions, idx, start_byte, nreads,
                written, pending, first_hello>>
flush_locals == <<timeout, nsleeps>>
flush_seen == <<segs>>
s2c_vars == <<s2c_pc, s2c_relayed, s2c_exit>>

\* ---------------------------------------------------- client_to_server
\* Lines 153-200: one read that returns data, and the plan made from it.
C2SRead ==
    /\ c2s_pc = "read"
    /\ nreads < MaxReads
    /\ \E rc \in ReadChunks(pending) :
          LET chunk == rc[1]
              nbuf  == chunk \o SubSeq(buf, Len(chunk) + 1, BufCap)
          IN  /\ pending' = rc[2]
              /\ buf' = nbuf
              /\ read_bytes' = Len(chunk)
              /\ split_positions' = SplitPlan(nbuf, Len(chunk), args)
              /\ first_hello' = IF first_hello = 0 /\ CarriesClientHello(chunk)
                                THEN nreads + 1 ELSE first_hello
    /\ idx' = 1
    /\ start_byte' = 0
    /\ nreads' = nreads + 1
    /\ written' = <<>>
    /\ segs' = <<>>
    /\ c2s_pc' = "write"
    /\ UNCHANGED <<proc_vars, args, flush_locals, c2s_exit, c2s_result, notsent,
                   server_wr, s2c_vars, s2c_after_c2s>>

\* Mutant of AfterBreak: the read's end returns from the function.
AfterBreak_Return == "done"

\* Lines 156 and 159: `break` leaves the loop for line 210.
AfterBreak == "shutdown"

\* Lines 153-160: the read returns 0 (the client closed its write side) or
\* fails; both break out of the loop.
C2SReadEnd(why) ==
    /\ c2s_pc = "read"
    /\ c2s_exit' = why
    /\ c2s_pc' = AfterBreak
    /\ UNCHANGED <<proc_vars, args, buf, read_bytes, split_positions, idx, start_byte,
                   nreads, written, pending, first_hello, flush_locals,
                   flush_seen, c2s_result, notsent,
                   server_wr, s2c_vars, s2c_after_c2s>>

C2SReadEof == C2SReadEnd("eof")

C2SReadErr == C2SReadEnd("read_err")

\* Lines 201 and 206-207: the loop moves on to the next offset, or to the
\* next read after the last one.
NextPc == IF idx = Len(split_positions) THEN "read" ELSE "write"

\* Line 153: back at the top of the loop the plan is cleared before the
\* read is awaited.
NextPlan == IF idx = Len(split_positions) THEN <<>> ELSE split_positions

\* Mutant of NeedsFlush: every slice is followed by a really_flush.
NeedsFlush_Always(plan, split_at, rb) == TRUE

\* Line 203: is this slice followed by a really_flush
NeedsFlush(plan, split_at, rb) == Len(plan) > 1 /\ split_at # rb

\* Lines 202-206: write_all of the next slice.
C2SWrite ==
    /\ c2s_pc = "write"
    /\ LET split_at == split_positions[idx]
           seg      == Slice(buf, start_byte, split_at)
       IN  /\ written' = written \o seg
           /\ notsent' = notsent + Len(seg)
           /\ IF NeedsFlush(split_positions, split_at, read_bytes)
              THEN /\ c2s_pc' = "flush"
                   /\ UNCHANGED <<idx, start_byte, split_positions>>
              ELSE /\ c2s_pc' = NextPc
                   /\ start_byte' = split_at
                   /\ idx' = idx + 1
                   /\ split_positions' = NextPlan
    /\ segs' = Append(segs, [lo |-> start_byte, hi |-> split_positions[idx],
                              seen |-> -1])
    /\ UNCHANGED <<proc_vars, args, buf, read_bytes, nreads, pending,
                   first_hello, flush_locals, c2s_exit, c2s_result,
                   server_wr, s2c_vars, s2c_after_c2s>>

\* A `?` of lines 202 or 204 returns the error: client_to_server ends
\* without reaching line 210, and its OwnedWriteHalf is dropped.
C2SFail(at, why) ==
    /\ c2s_pc = at
    /\ c2s_pc' = "done"
    /\ c2s_exit' = why
    /\ c2s_result' = "Err"
    /\ server_wr' = "dropped"
    /\ timeout' = 1
    /\ nsleeps' = 0
    /\ s2c_pc' = PeerAfterEnd(s2c_pc)
    /\ UNCHANGED <<proc_vars, args, c2s_locals, flush_seen, notsent, s2c_relayed,
                   s2c_exit, s2c_after_c2s>>

C2SWriteErr == C2SFail("write", "write_err")

\* ---------------------------------------------------------- really_flush
\* Lines 130-132: writer.flush(), then timeout = 1.
C2SFlush ==
    /\ c2s_pc = "flush"
    /\ timeout' = 1
    /\ nsleeps' = 0
    /\ c2s_pc' = "poll"
    /\ UNCHANGED <<proc_vars, args, c2s_locals, flush_seen, c2s_exit, c2s_result,
                   notsent, server_wr, s2c_vars, s2c_after_c2s>>

C2SFlushErr == C2SFail("flush", "flush_err")

\* Mutant of StillUnsent: the test is >= 0, true of every count.
StillUnsent_OrZero(n) == n >= 0

\* Line 133: get_tcp_info(fd)?.tcpi_notsent_bytes > 0; on 0 really_flush
\* returns Ok and the write loop goes on (line 206).  timeout and nsleeps
\* are locals of really_flush: they end with the call.
StillUnsent(n) == n > 0

C2SPoll ==
    /\ c2s_pc = "poll"
    /\ IF StillUnsent(notsent)
       THEN /\ c2s_pc' = "sleep"
            /\ UNCHANGED <<idx, start_byte, segs, split_positions>>
            /\ UNCHANGED flush_locals
       ELSE /\ c2s_pc' = NextPc
            /\ start_byte' = split_positions[idx]
            /\ idx' = idx + 1
            /\ split_positions' = NextPlan
            /\ segs' = [segs EXCEPT ![Len(segs)].seen = notsent]
            /\ timeout' = 1
            /\ nsleeps' = 0
    /\ UNCHANGED <<proc_vars, args, buf, read_bytes, nreads, written,
                   pending, first_hello, c2s_exit, c2s_result,
                   notsent, server_wr, s2c_vars, s2c_after_c2s>>

\* Lines 108-127: getsockopt fails
C2SPollErr == C2SFail("poll", "query_err")

\* Mutant of NextTimeout: the cap is missing.
NextTimeout_Uncapped(t) == t * 2

\* Lines 134-137: sleep(timeout), then double it below the cap.
NextTimeout(t) == IF t < TIMEOUT_CAP THEN t * 2 ELSE t

\* nsleeps counts the sleeps of this really_flush up to MaxSleeps.
C2SSleep ==
    /\ c2s_pc = "sleep"
    /\ nsleeps' = Min(nsleeps + 1, MaxSleeps)
    /\ timeout' = NextTimeout(timeout)
    /\ c2s_pc' = "poll"
    /\ UNCHANGED <<proc_vars, args, c2s_locals, segs, c2s_exit,
                   c2s_result, notsent, server_wr, s2c_vars, s2c_after_c2s>>

\* Lines 210-211: writer.shutdown() after the loop, then Ok(()).
C2SShutdown ==
    /\ c2s_pc = "shutdown"
    /\ server_wr' = "shutdown"
    /\ c2s_result' = "Ok"
    /\ c2s_pc' = "done"
    /\ s2c_pc' = PeerAfterEnd(s2c_pc)
    /\ UNCHANGED <<proc_vars, args, c2s_locals, flush_locals, flush_seen, c2s_exit,
                   notsent, s2c_relayed, s2c_exit, s2c_after_c2s>>

\* Line 210: shutdown() fails and `?` returns the error.
C2SShutdownErr ==
    /\ c2s_pc = "shutdown"
    /\ server_wr' = "shutdown_err"
    /\ c2s_result' = "Err"
    /\ c2s_pc' = "done"
    /\ s2c_pc' = PeerAfterEnd(s2c_pc)
    /\ UNCHANGED <<proc_vars, args, c2s_locals, flush_locals, flush_seen, c2s_exit,
                   notsent, s2c_relayed, s2c_exit, s2c_after_c2s>>

\* ----------------------------------------------------------------- kernel
\* The kernel sends what is queued on the destination socket, at any moment
\* and independently of the tasks.  really_flush only tests the count for
\* > 0, so the queue is emptied in one step.
KernelDrain ==
    /\ notsent > 0
    /\ notsent' = 0
    /\ UNCHANGED <<proc_vars, args, c2s_pc, c2s_locals, flush_locals, flush_seen,
                   c2s_exit, c2s_result, server_wr, s2c_vars, s2c_after_c2s>>

\* ---------------------------------------------------- server_to_client
c2s_rest == <<c2s_locals, flush_locals, flush_seen, c2s_exit, c2s_result,
              notsent, server_wr>>

\* Line 215: tokio::io::copy moves one chunk from the server to the client.
S2CCopy ==
    /\ s2c_pc = "copy"
    /\ s2c_relayed' = TRUE
    /\ s2c_after_c2s' = (s2c_after_c2s \/ c2s_pc = "done")
    /\ UNCHANGED <<proc_vars, args, c2s_pc, c2s_rest, s2c_pc, s2c_exit>>

\* Lines 215-216: copy returns at the server's EOF, or with an error.
S2CEnd(why) ==
    /\ s2c_pc = "copy"
    /\ s2c_pc' = "done"
    /\ s2c_exit' = why
    /\ c2s_pc' = PeerAfterEnd(c2s_pc)
    /\ UNCHANGED <<proc_vars, args, c2s_rest, s2c_relayed, s2c_after_c2s>>

S2CEof == S2CEnd("eof")

S2CErr == S2CEnd("err")

Next ==
    \/ C2SRead
    \/ C2SReadEof
    \/ C2SReadErr
    \/ C2SWrite
    \/ C2SWriteErr
    \/ C2SFlush
    \/ C2SFlushErr
    \/ C2SPoll
    \/ C2SPollErr
    \/ C2SSleep
    \/ C2SShutdown
    \/ C2SShutdownErr
    \/ KernelDrain
    \/ S2CCopy
    \/ S2CEof
    \/ S2CErr

Spec == Init /\ [][Next]_vars

\* ------------------------------------------------- the outbound task alone
\* The outbound direction and the kernel, with both kinds of split
\* configured.  The runtime polls a task whose read, write, flush or timer
\* is ready, and the kernel goes on sending what is queued on the
\* destination socket: weak fairness for the steps of the write loop and
\* of really_flush, and for the drain.  Nothing makes the client send, and
\* no error has to happen.
LiveInit ==
    /\ Init
    /\ args = [split_positions |-> <<12, 5, FarPos>>, split_host |-> TRUE]

LiveNext ==
    \/ C2SRead
    \/ C2SReadEof
    \/ C2SReadErr
    \/ C2SWrite
    \/ C2SWriteErr
    \/ C2SFlush
    \/ C2SFlushErr
    \/ C2SPoll
    \/ C2SPollErr
    \/ C2SSleep
    \/ C2SShutdown
    \/ C2SShutdownErr
    \/ KernelDrain

Fairness ==
    /\ WF_vars(KernelDrain)
    /\ WF_vars(C2SWrite)
    /\ WF_vars(C2SFlush)
    /\ WF_vars(C2SPoll)
    /\ WF_vars(C2SSleep)

LiveSpec == LiveInit /\ [][LiveNext]_vars /\ Fairness

\* ------------------------------------------------------------------ main
\* Lines 50-63: Args::parse, then the runtime for the thread count.
\* Builder::worker_threads panics on 0.
MainBuild ==
    /\ main_pc = "main"
    /\ IF threads = 0
       THEN main_pc' = "panic" /\ runtime' = NoRuntime
       ELSE main_pc' = "bind" /\ runtime' = RuntimeOf(threads)
    /\ UNCHANGED <<conn_vars, threads, acceptors, running, conns, fds>>

\* Lines 55 and 61: build()? fails
MainBuildErr ==
    /\ main_pc = "main"
    /\ threads > 0
    /\ main_pc' = "failed"
    /\ UNCHANGED <<conn_vars, threads, runtime, acceptors, running, conns, fds>>

\* Lines 69-81: make_listener for the next address, and its accept loop is
\* spawned.
MainListen ==
    /\ main_pc = "bind"
    /\ Cardinality(acceptors) < NUM_LISTENERS
    /\ acceptors' = acceptors \cup {Cardinality(acceptors) + 1}
    /\ UNCHANGED <<conn_vars, main_pc, threads, runtime, running, conns, fds>>

\* main returns: the runtime is dropped and the process exits, and with it
\* every task and every socket.
ProcessEnds ==
    /\ runtime' = NoRuntime
    /\ acceptors' = {}
    /\ running' = 0
    /\ conns' = [c \in Conns |-> NoConn]
    /\ fds' = [f \in Fds |-> Free]

\* Line 70: make_listener fails; _main returns the error and the process
\* ends.
MainListenErr ==
    /\ main_pc = "bind"
    /\ Cardinality(acceptors) < NUM_LISTENERS
    /\ main_pc' = "failed"
    /\ ProcessEnds
    /\ UNCHANGED <<conn_vars, threads>>

\* Line 83: every listener is up, _main awaits ctrl_c.
MainWait ==
    /\ main_pc = "bind"
    /\ acceptors = Listeners
    /\ main_pc' = "serving"
    /\ UNCHANGED <<conn_vars, threads, runtime, acceptors, running, conns, fds>>

\* Lines 83-84: ctrl_c arrives, _main returns and the runtime is torn down.
CtrlC ==
    /\ main_pc = "serving"
    /\ main_pc' = "stopped"
    /\ ProcessEnds
    /\ UNCHANGED <<conn_vars, threads>>

\* Spawned tasks run while the runtime is driven: a multi_thread runtime
\* has its worker from the start, a current_thread runtime runs tasks only
\* while block_on's future waits (line 83).
TasksRun ==
    /\ main_pc \in {"bind", "serving"}
    /\ runtime.mode = "multi_thread" \/ main_pc = "serving"

\* Both runtimes main can build have one thread for the tasks (RuntimeOf),
\* and handle_client has no await: it holds that thread from its first
\* line to its return.
WorkerFree == running = 0

\* ---------------------------------------------------------------- acceptor
\* Mutant of AfterConnFailure: the error of a connection's task is passed
\* on (`?`) and ends the accept loops.
AfterConnFailure_Propagated(acc) == {}

\* Lines 75-79: handle_client is spawned and its JoinHandle dropped, and so
\* are the relay tasks (lines 250-256): an error a connection's task returns
\* reaches no accept loop.
AfterConnFailure(acc) == acc

\* Lines 76-77: accept returns a connection and handle_client is spawned
\* for it.
Accept(l) ==
    /\ TasksRun
    /\ WorkerFree
    /\ l \in acceptors
    /\ \E c \in Conns :
          /\ conns[c].hc = "none"
          /\ \A d \in 1..(c - 1) : conns[d].hc # "none"
          /\ conns' = [conns EXCEPT ![c] =
                 [@ EXCEPT !.hc = "start",
                           !.halves = [h \in Halves |->
                               IF SocketOf(h) = "client" THEN "handle_client"
                               ELSE "none"]]]
          /\ fds' = [fds EXCEPT ![LowestFree(fds)] = [conn |-> c, sock |-> "client"]]
    /\ UNCHANGED <<conn_vars, main_pc, threads, runtime, acceptors, running>>

\* Line 76: accept returns an error; the loop goes on to the next accept.
AcceptErr(l) ==
    /\ TasksRun
    /\ WorkerFree
    /\ l \in acceptors
    /\ UNCHANGED <<conn_vars, proc_vars>>

\* ----------------------------------------------------------- handle_client
\* A `?` of handle_client returns the error: what it still owns is dropped
\* (connect_res, the value line 241 discards, is kept only until
\* handle_client returns).
HcFail(c, at) ==
    /\ TasksRun
    /\ conns[c].hc = at
    /\ IF at = "start" THEN WorkerFree ELSE running = c
    /\ LET hv == DropOwned(conns[c].halves, "handle_client")
       IN  /\ conns' = [conns EXCEPT ![c] =
                  [@ EXCEPT !.hc = "err", !.connect_res = "none", !.halves = hv]]
           /\ fds' = Release(fds, c, hv)
    /\ running' = 0
    /\ acceptors' = AfterConnFailure(acceptors)
    /\ UNCHANGED <<conn_vars, main_pc, threads, runtime>>

\* Lines 224-225: set_nodelay and get_original_dst
HcOriginalDst(c) ==
    /\ TasksRun
    /\ WorkerFree
    /\ conns[c].hc = "start"
    /\ conns' = [conns EXCEPT ![c].hc = "socket"]
    /\ running' = c
    /\ UNCHANGED <<conn_vars, main_pc, threads, runtime, acceptors, fds>>

HcOriginalDstErr(c) == HcFail(c, "start")

\* Lines 228-240: the outbound socket and its options
HcSocket(c) ==
    /\ running = c
    /\ conns[c].hc = "socket"
    /\ conns' = [conns EXCEPT ![c] =
           [@ EXCEPT !.hc = "connect",
                     !.halves = [h \in Halves |->
                         IF SocketOf(h) = "server" THEN "handle_client"
                         ELSE @[h]]]]
    /\ fds' = [fds EXCEPT ![LowestFree(fds)] = [conn |-> c, sock |-> "server"]]
    /\ UNCHANGED <<conn_vars, main_pc, threads, runtime, acceptors, running>>

\* Lines 233-240: Socket::new or one of the set_* calls fails
HcSocketErr(c) == HcFail(c, "socket")

\* Line 241: connect(..).ok() - the result is discarded, whatever it is.
AfterConnect(res) == "register"

\* Line 241: the non-blocking connect returns "in progress" (pending) or
\* fails at once (failed).
HcConnect(c, res) ==
    /\ running = c
    /\ conns[c].hc = "connect"
    /\ conns' = [conns EXCEPT ![c] =
           [@ EXCEPT !.hc = AfterConnect(res), !.connect_res = res,
                     !.connects = @ + 1]]
    /\ UNCHANGED <<conn_vars, main_pc, threads, runtime, acceptors, running, fds>>

\* Lines 242-243: TcpStream::from_std
HcRegister(c) ==
    /\ running = c
    /\ conns[c].hc = "register"
    /\ conns' = [conns EXCEPT ![c].hc = "split"]
    /\ UNCHANGED <<conn_vars, main_pc, threads, runtime, acceptors, running, fds>>

HcRegisterErr(c) == HcFail(c, "register")

\* Mutant of C2SHalves: the outbound task is given both halves of the
\* client stream.
C2SHalves_ClientOnly == {"client_reader", "client_writer"}

\* Lines 250-255: what client_to_server is given
C2SHalves == {"client_reader", "server_writer"}

\* Line 256: what server_to_client is given
S2CHalves == {"server_reader", "client_writer"}

\* Lines 245-255: server_fd, both streams split, client_to_server spawned.
HcSpawnC2S(c) ==
    /\ running = c
    /\ conns[c].hc = "split"
    /\ conns' = [conns EXCEPT ![c] =
           [@ EXCEPT !.hc = "spawn_s2c",
                     !.server_fd = FdOf(fds, c, "server"),
                     !.c2s = "run",
                     !.halves = [h \in Halves |->
                         IF h \in C2SHalves THEN "c2s" ELSE @[h]]]]
    /\ UNCHANGED <<conn_vars, main_pc, threads, runtime, acceptors, running, fds>>

\* Lines 256-259: server_to_client spawned, handle_client returns Ok and
\* drops what it has not given away.
HcSpawnS2C(c) ==
    /\ running = c
    /\ conns[c].hc = "spawn_s2c"
    /\ LET given == [h \in Halves |->
                        IF h \in S2CHalves THEN "s2c" ELSE conns[c].halves[h]]
           hv    == DropOwned(given, "handle_client")
       IN  /\ conns' = [conns EXCEPT ![c] =
                  [@ EXCEPT !.hc = "ok", !.s2c = "run", !.connect_res = "none",
                            !.halves = hv]]
           /\ fds' = Release(fds, c, hv)
    /\ running' = 0
    /\ UNCHANGED <<conn_vars, main_pc, threads, runtime, acceptors>>

\* ------------------------------------------------------------- relay tasks
\* What descriptor fd refers to when connection c uses it
QueryTarget(t, c, fd) ==
    IF t[fd] = [conn |-> c, sock |-> "server"] THEN "own"
    ELSE IF t[fd] = Free THEN "closed"
    ELSE "other"

\* Lines 133 and 108-127: really_flush queries tcpi_notsent_bytes on
\* server_fd.
ConnQuery(c) ==
    /\ TasksRun
    /\ WorkerFree
    /\ conns[c].c2s = "run"
    /\ conns' = [conns EXCEPT ![c].queried =
                     QueryTarget(fds, c, conns[c].server_fd)]
    /\ UNCHANGED <<conn_vars, main_pc, threads, runtime, acceptors, running, fds>>

\* A relay task returns: its future is dropped, and with it the halves it
\* was given (and, with client_to_server, what its last query saw).
ConnReturn(c, task, res) ==
    /\ TasksRun
    /\ WorkerFree
    /\ conns[c][task] = "run"
    /\ LET hv == DropOwned(conns[c].halves, task)
       IN  /\ conns' = [conns EXCEPT ![c] =
                  [@ EXCEPT ![task] = res, !.halves = hv,
                            !.queried = IF task = "c2s" THEN "none" ELSE @]]
           /\ fds' = Release(fds, c, hv)
    /\ acceptors' = IF res = "err"
                    THEN AfterConnFailure(acceptors)
                    ELSE acceptors
    /\ UNCHANGED <<conn_vars, main_pc, threads, runtime, running>>

\* Lines 210-211: client_to_server returns Ok
ConnC2SOk(c) == ConnReturn(c, "c2s", "ok")

\* Lines 202, 204, 210: client_to_server returns an error
ConnC2SErr(c) == ConnReturn(c, "c2s", "err")

\* Line 216: server_to_client returns Ok
ConnS2COk(c) == ConnReturn(c, "s2c", "ok")

\* Line 215: server_to_client returns an error
ConnS2CErr(c) == ConnReturn(c, "s2c", "err")

\* After Args::parse (line 50); no connection yet.
MainInit ==
    /\ ConnInit
    /\ args = [split_positions |-> <<>>, split_host |-> TRUE]
    /\ main_pc = "main"
    /\ threads \in ThreadCounts
    /\ runtime = NoRuntime
    /\ acceptors = {}
    /\ running = 0
    /\ conns = [c \in Conns |-> NoConn]
    /\ fds = [f \in Fds |-> Free]

MainNext ==
    \/ MainBuild
    \/ MainBuildErr
    \/ MainListen
    \/ MainListenErr
    \/ MainWait
    \/ CtrlC
    \/ \E l \in Listeners : Accept(l)
    \/ \E l \in Listeners : AcceptErr(l)
    \/ \E c \in Conns : HcOriginalDst(c)
    \/ \E c \in Conns : HcOriginalDstErr(c)
    \/ \E c \in Conns : HcSocket(c)
    \/ \E c \in Conns : HcSocketErr(c)
    \/ \E c \in Conns, res \in {"pending", "failed"} : HcConnect(c, res)
    \/ \E c \in Conns : HcRegister(c)
    \/ \E c \in Conns : HcRegisterErr(c)
    \/ \E c \in Conns : HcSpawnC2S(c)
    \/ \E c \in Conns : HcSpawnS2C(c)
    \/ \E c \in Conns : ConnQuery(c)
    \/ \E c \in Conns : ConnC2SOk(c)
    \/ \E c \in Conns : ConnC2SErr(c)
    \/ \E c \in Conns : ConnS2COk(c)
    \/ \E c \in Conns : ConnS2CErr(c)

MainSpec == MainInit /\ [][MainNext]_vars


TypeOK ==
    /\ Len(buf) = BufCap
    /\ read_bytes \in 0..BufCap
    /\ c2s_pc \in {"write", "flush", "poll", "sleep"}
          => idx \in 1..Len(split_positions)
    /\ c2s_pc \in {"read", "write", "flush", "poll", "sleep", "shutdown", "done"}
    /\ server_wr \in {"open", "shutdown", "shutdown_err", "dropped"}
    /\ nsleeps \in 0..MaxSleeps
    /\ first_hello \in 0..MaxReads

\* ================================================================ claims
\* split_positions holds the plan of the last read from the read until the
\* next pass through line 153 clears it.
HasPlan == split_positions # <<>>

\* The write loop of the last read has run to its end; read_bytes, written
\* and segs still describe that read.
LoopDone == nreads > 0 /\ c2s_pc = "read"

IsPrefix(s, t) == Len(s) <= Len(t) /\ s = SubSeq(t, 1, Len(s))

ZeroBuf == [i \in 1..BufCap |-> 0]

\* C1: the bytes written to the destination for a read are, in order,
\* exactly buf[0..read_bytes): at every moment a prefix of it, and all of
\* it once the write loop has ended.
C1_StreamPreserved ==
    /\ HasPlan => IsPrefix(written, Slice(buf, 0, read_bytes))
    /\ LoopDone => written = Slice(buf, 0, read_bytes)

\* C2: the plan of every read is strictly ascending, has no offset above
\* read_bytes, and ends with read_bytes.
C2_PlanShape ==
    HasPlan =>
        /\ \A i \in 1..(Len(split_positions) - 1) :
              split_positions[i] < split_positions[i + 1]
        /\ \A i \in 1..Len(split_positions) : split_positions[i] <= read_bytes
        /\ split_positions[Len(split_positions)] = read_bytes

\* Buffers a read can land in: fresh, or holding an earlier whole message.
StaleBufs == {ZeroBuf} \cup {m \o SubSeq(ZeroBuf, Len(m) + 1, BufCap) : m \in Messages}

\* C3: the plan depends only on buf[0..read_bytes) and the configuration:
\* the same bytes read into any other buffer give the same plan, and a
\* ClientHello of which the read holds only the first part (the rest is
\* still to come) gives the plan [read_bytes].
C3_PlanIgnoresStale ==
    HasPlan =>
        /\ \A t \in StaleBufs :
              SplitPlan(Slice(buf, 0, read_bytes) \o SubSeq(t, read_bytes + 1, BufCap),
                        read_bytes, args) = split_positions
        /\ (pending # <<>> /\ Byte(buf, 0) = REC_HANDSHAKE
               => split_positions = <<read_bytes>>)

PlanSet == Range(split_positions)

Configured == Range(args.split_positions)

\* The host-name entries of the ClientHellos of b, each with its offset in
\* b and its length.
HostEntries(b) ==
    LET rec == parse_tls_plaintext(b)
    IN  IF ~rec.ok THEN {}
        ELSE {h \in UNION {UNION {Range(e.snis) :
                                    e \in Range(ParseExtensions(b, m.lo, m.hi))} :
                            m \in {x \in Range(rec.msg) :
                                     x.kind = "ClientHello" /\ x.has_ext}} :
                h.sni_type = SNI_HOSTNAME}

\* No really_flush has been started for the last read.
NoFlushWait ==
    /\ c2s_pc \notin {"flush", "poll", "sleep"}
    /\ c2s_exit \notin {"flush_err", "query_err"}
    /\ \A i \in 1..Len(segs) : segs[i].seen = -1

C5_HostSplit ==
    args.split_host =>
        /\ HasPlan =>
              \A h \in HostEntries(buf) :
                  /\ h.len >= 2 => (h.off + 1) \in PlanSet
                  /\ h.len < 2 => h.off \in PlanSet
        /\ (/\ LoopDone
            /\ args.split_positions = <<>>
            /\ read_bytes = Len(HelloHost2)
            /\ buf = HelloHost2 \o SubSeq(ZeroBuf, Len(HelloHost2) + 1, BufCap))
           => segs = <<[lo |-> 0, hi |-> 12, seen |-> 0],
                       [lo |-> 12, hi |-> 13, seen |-> -1]>>

\* C5 happens: that ClientHello has been read and written.
C5_Witness ==
    /\ LoopDone
    /\ args = [split_positions |-> <<>>, split_host |-> TRUE]
    /\ read_bytes = Len(HelloHost2)
    /\ buf = HelloHost2 \o SubSeq(ZeroBuf, Len(HelloHost2) + 1, BufCap)
    /\ [off |-> 11, len |-> 2, sni_type |-> SNI_HOSTNAME] \in HostEntries(buf)
    /\ written = HelloHost2
    /\ Len(segs) = 2

HostPushes(b) == {HostPush(h) : h \in HostEntries(b)}

C7_ExplicitWithoutHost ==
    HasPlan /\ CarriesClientHello(buf) /\ HostEntries(buf) = {} =>
        PlanSet = {p \in Configured : p < read_bytes} \cup {read_bytes}

\* C8: in a plan of more than one offset, every slice that is not the last
\* of the plan is followed by a flush-wait that returned on 0 unsent bytes
\* before the next slice is written (or the next read begins).
C8_WaitBetweenSlices ==
    /\ HasPlan /\ Len(split_positions) > 1 =>
          \A i \in 1..Len(segs) :
              /\ i < Len(split_positions)
              /\ i < Len(segs) \/ c2s_pc = "write"
              => segs[i].seen = 0
    /\ LoopDone => \A i \in 1..(Len(segs) - 1) : segs[i].seen = 0

\* C9: a plan of exactly one offset starts no flush-wait: no flush, no
\* query of the unsent bytes, no sleep, from the write to the next read.
C9_NoWaitWhenUnsplit ==
    /\ HasPlan /\ Len(split_positions) = 1 => NoFlushWait
    /\ LoopDone /\ Len(segs) = 1 => NoFlushWait

\* C9 happens: an unsplit read has been written and the loop is back at
\* the read.
C9_Witness ==
    /\ LoopDone
    /\ segs = <<[lo |-> 0, hi |-> read_bytes, seen |-> -1]>>
    /\ written # <<>>

\* C10: the two directions end independently.  A step that ends one task
\* leaves the other task where it is; the outbound task that ends on the
\* client's EOF with Ok has shut down the destination's write side; the
\* inbound task ends only on its own EOF or error.
C10_IndependentEnd ==
    [][/\ (c2s_pc # "done" /\ c2s_pc' = "done")
          => /\ s2c_pc' = s2c_pc
             /\ s2c_exit' = s2c_exit
             /\ (c2s_exit = "eof" /\ c2s_result' = "Ok" => server_wr' = "shutdown")
       /\ (s2c_pc # "done" /\ s2c_pc' = "done")
          => /\ c2s_pc' = c2s_pc
             /\ server_wr' = server_wr
             /\ s2c_exit' \in {"eof", "err"}
       /\ (s2c_pc = "copy" /\ s2c_relayed' # s2c_relayed)
          => s2c_pc' = "copy"]_vars

\* C10 happens: the outbound task has ended on the client's EOF and shut
\* the write side down, and the inbound task has relayed data after that.
C10_Witness ==
    /\ c2s_pc = "done"
    /\ c2s_exit = "eof"
    /\ server_wr = "shutdown"
    /\ s2c_pc = "copy"
    /\ s2c_after_c2s

C14_OnlyFirstHello ==
    /\ first_hello > 0
    /\ nreads > first_hello
    /\ HostEntries(Slice(buf, 0, read_bytes)) # {}
    => /\ HasPlan => split_positions = <<read_bytes>>
       /\ HasPlan \/ LoopDone => NoFlushWait /\ Len(segs) <= 1

\* The host names in the bytes of the last read
ReadHostEntries == HostEntries(Slice(buf, 0, read_bytes))

\* C14 as amended: every read is inspected, whatever was read before.  With
\* SNI splitting on, a later read whose own bytes are a ClientHello record
\* with a host name has the host-name offset in its plan like a first one,
\* and where that offset is inside the read, the read goes out in more
\* than one slice, the first followed by a flush-wait.
C14_EveryReadInspected ==
    first_hello > 0 /\ nreads > first_hello /\ args.split_host =>
        /\ HasPlan =>
              \A h \in ReadHostEntries :
                  /\ HostPush(h) \in PlanSet
                  /\ HostPush(h) < read_bytes => Len(split_positions) > 1
        /\ LoopDone /\ (\E h \in ReadHostEntries : HostPush(h) < read_bytes)
              => Len(segs) > 1 /\ segs[1].seen = 0

\* C14 happens: the second read of a connection, after a first one that
\* carried a ClientHello, was a ClientHello with a host name again and
\* has gone out in two slices with a flush-wait between them.
C14_Witness ==
    /\ LoopDone
    /\ first_hello = 1
    /\ nreads = 2
    /\ args.split_host
    /\ ReadHostEntries # {}
    /\ Len(segs) = 2
    /\ segs[1].seen = 0

\* C15: a really_flush queries the unsent bytes before it sleeps and
\* sleeps only after a query that saw unsent bytes; after every sleep it
\* queries again; the sleep after n earlier sleeps lasts min(2^n, 8), so
\* the sleeps are 1, 2, 4, 8, 8, ... and none is above 8.
C15_Backoff ==
    [][/\ c2s_pc = "flush" /\ c2s_pc' # "flush" => c2s_pc' \in {"poll", "done"}
       /\ c2s_pc' = "sleep" /\ c2s_pc # "sleep"
             => c2s_pc = "poll" /\ notsent > 0 /\ timeout' = timeout
       /\ c2s_pc = "poll" /\ notsent = 0 => c2s_pc' \notin {"sleep", "flush"}
       /\ c2s_pc = "poll" /\ nsleeps = 0 => timeout = 1
       /\ c2s_pc = "sleep" =>
             /\ timeout = Min(2 ^ nsleeps, TIMEOUT_CAP)
             /\ timeout <= 8
             /\ c2s_pc' \in {"sleep", "poll"}
      ]_vars

\* C15 happens: the fifth sleep of a flush-wait, after sleeps of 1, 2, 4
\* and 8, is about to last 8.
C15_Witness ==
    /\ c2s_pc = "sleep"
    /\ nsleeps = 4
    /\ timeout = 8
    /\ notsent > 0

\* C18: every slice the write loop takes is in range,
\* 0 <= start_byte <= split_at <= BufCap, every offset of a plan is within
\* the buffer, and every host name the parse of a read returns (looked at
\* when the plan has just been made) lies within the buffer, so its offset
\* is the difference of two pointers into buf.
C18_SlicesInRange ==
    /\ c2s_pc = "write" =>
          /\ 0 <= start_byte
          /\ start_byte <= split_positions[idx]
          /\ split_positions[idx] <= BufCap
    /\ \A p \in PlanSet : 0 <= p /\ p <= BufCap
    /\ c2s_pc = "write" /\ idx = 1 =>
          \A h \in HostEntries(buf) : 0 <= h.off /\ h.off + h.len <= BufCap

\* C18 happens: the write loop is about to take a slice that ends beyond
\* read_bytes.
C18_Witness ==
    /\ c2s_pc = "write"
    /\ idx > 1
    /\ start_byte > 0
    /\ split_positions[idx] > read_bytes
    /\ args.split_positions # <<>>

FlushWaiting == c2s_pc \in {"flush", "poll", "sleep"}

\* C20: with the kernel draining the send queue, every flush-wait returns
\* (on a query that sees 0 unsent bytes, or with an error), every read's
\* write loop comes to its end, at the next read or at the task's return;
\* a flush-wait is left for the next slice or the next read only by a
\* query that sees 0 unsent bytes, and its poll loop is left otherwise only
\* by a query that fails.
C20_FlushWaitReturns ==
    /\ FlushWaiting ~> ~FlushWaiting
    /\ (c2s_pc = "write") ~> (c2s_pc \in {"read", "done"})
    /\ [][FlushWaiting /\ c2s_pc' \in {"write", "read"}
             => c2s_pc = "poll" /\ notsent = 0]_vars
    /\ [][(c2s_pc \in {"poll", "sleep"} /\ ~(c2s_pc' \in {"poll", "sleep", "write", "read"}))
             => (c2s_pc = "poll" /\ c2s_pc' = "done" /\ c2s_exit' = "query_err")]_vars

\* C20 happens: a flush-wait that slept while bytes were unsent has
\* returned on 0, and the loop has come back to the read with all of the
\* read written.
C20_Witness ==
    /\ LoopDone
    /\ Len(segs) > 1
    /\ segs[1].seen = 0
    /\ written = Slice(buf, 0, read_bytes)

\* -------------------------------------------- claims about the process
\* A step in which handle_client or a relay task of connection c ends with
\* an error.
ConnFails(c) ==
    \/ conns[c].hc # "err" /\ conns'[c].hc = "err"
    \/ conns[c].c2s = "run" /\ conns'[c].c2s = "err"
    \/ conns[c].s2c = "run" /\ conns'[c].s2c = "err"

\* C11: a failure of a connection (original destination, outbound socket,
\* or an error a relay task returns) ends only tasks of that connection:
\* main, the runtime and every accept loop go on, every other connection
\* and its sockets are untouched, every listener still accepts, and no
\* connection ever makes a second outbound connect.
C11_FailuresContained ==
    [][\A c \in Conns :
          /\ ConnFails(c) =>
                /\ main_pc' = main_pc
                /\ runtime' = runtime
                /\ acceptors' = acceptors
                /\ \A d \in Conns \ {c} : conns'[d] = conns[d]
                /\ \A f \in Fds : fds[f].conn # c => fds'[f] = fds[f]
                /\ conns'[c].connects = conns[c].connects
                /\ \A t \in {"c2s", "s2c"} :
                      conns[c][t] = "run" => conns'[c][t] \in {"run", "err"}
          /\ conns'[c].connects <= 1
          /\ (/\ main_pc = "serving"
              /\ WorkerFree
              /\ \E d \in Conns : conns[d].hc = "none")
             => \A l \in Listeners : ENABLED Accept(l)
      ]_vars

\* C11 happens: connection 1 failed in handle_client, connection 2 was
\* accepted, connected once, and lost its outbound task to an error while
\* its inbound task runs on; both accept loops are there.
C11_Witness ==
    /\ main_pc = "serving"
    /\ acceptors = Listeners
    /\ conns[1].hc = "err"
    /\ conns[2].hc = "ok"
    /\ conns[2].connects = 1
    /\ conns[2].c2s = "err"
    /\ conns[2].s2c = "run"

\* C12: a connect() that fails with anything but "in progress" ends
\* handle_client with an error and no relay task is spawned; only the
\* pending status is ignored.
C12_ConnectFailureFatal ==
    \A c \in Conns :
        /\ conns[c].connect_res = "failed"
              => /\ conns[c].hc = "err"
                 /\ conns[c].c2s = "none"
                 /\ conns[c].s2c = "none"
        /\ conns[c].connect_res = "pending"
              => conns[c].hc \in {"register", "split", "spawn_s2c"}

SocketOpen(c, sock) == \E f \in Fds : fds[f] = [conn |-> c, sock |-> sock]

Returned(c, task) == conns[c][task] \in {"ok", "err"}

\* C16: while one of the two relay tasks of a connection is running, its
\* client socket and its destination socket are open; once both have
\* returned, both sockets are closed.
C16_ReleasedWhenBothReturn ==
    \A c \in Conns :
        /\ conns[c].c2s = "run" \/ conns[c].s2c = "run"
              => SocketOpen(c, "client") /\ SocketOpen(c, "server")
        /\ Returned(c, "c2s") /\ Returned(c, "s2c")
              => ~SocketOpen(c, "client") /\ ~SocketOpen(c, "server")

\* C16 happens: both tasks of connection 1 have returned and its sockets
\* are closed; connection 2 has one task back and one running, sockets
\* open.
C16_Witness ==
    /\ Returned(1, "c2s") /\ Returned(1, "s2c")
    /\ ~SocketOpen(1, "client") /\ ~SocketOpen(1, "server")
    /\ Returned(2, "s2c") /\ conns[2].c2s = "run"
    /\ SocketOpen(2, "client") /\ SocketOpen(2, "server")

\* C17: a thread count of 1 gives a runtime with a single thread, a count
\* N > 1 the multi-thread runtime with N workers.
C17_ThreadsSelectMode ==
    main_pc \in {"bind", "serving"} =>
        /\ threads = 1 => runtime.workers = 1
        /\ threads > 1 => runtime = [mode |-> "multi_thread", workers |-> threads]

\* C19: whenever the outbound task queries the unsent bytes, server_fd
\* refers to the open destination socket of its own connection - also
\* after the inbound task has returned, and while other connections open
\* and close sockets; as long as the outbound task runs, server_fd is that
\* socket.
C19_QueryOnOwnSocket ==
    \A c \in Conns :
        /\ conns[c].queried \in {"none", "own"}
        /\ conns[c].c2s = "run"
              => QueryTarget(fds, c, conns[c].server_fd) = "own"

\* C19 happens: connection 1 is over and closed, connection 2 got a
\* descriptor connection 1 had used, and its outbound task has queried it
\* after its inbound task returned.
C19_Witness ==
    /\ conns[2].queried = "own"
    /\ Returned(2, "s2c")
    /\ Returned(1, "c2s") /\ Returned(1, "s2c")
    /\ conns[2].server_fd <= 2

====
